---- MODULE Spec2Model ----
(***************************************************************************)
(* Model of the dataset loader (src/src/preprocessing/data_loader.py) and  *)
(* of the driver main() (src/task2_dataset_loading.py).                    *)
(*                                                                         *)
(* A table (pandas DataFrame) is a record [cols, rows]: cols is the        *)
(* sequence of column names, rows the sequence of rows, each row a         *)
(* sequence of cells, one per column.  A cell is a record [k, v]:          *)
(*   k = "str": a text cell of v characters,                               *)
(*   k = "num": the number v,                                              *)
(*   k = "na" : a missing value (NaN).                                     *)
(* An optional value (Python None) is a sequence of length <= 1.           *)
(***************************************************************************)
EXTENDS Integers, Sequences, FiniteSets, TLC

VARIABLES
    config_exists,   \* config.json is present in the working directory
    raw_dir,         \* names of the entries of the raw-data directory
    csv_content,     \* content of data.csv: [wellformed, cols, rows]
    filename,        \* argument of load_sql_injection_dataset (None: <<>>)
    auto_detect,     \* argument of load_sql_injection_dataset
    pc,              \* position of the running code
    df,              \* the loader's result: None (<<>>) or <<table>>
    detect_error,    \* which detection raised ValueError inside the loader
    exc,             \* the exception propagating to the caller, or NoExc
    overview_data,   \* dataset_overview's result: None or <<report>>
    printed,         \* what dataset_overview prints only: None or <<record>>
    stats,           \* the driver's own statistics (lines 57-111): None or <<record>>
    written,         \* JSON artifacts written: subset of {"overview", "results"}
    results,         \* the complete results document built by the driver
    calls,           \* the steps that have run, in order
    result,          \* main()'s return value: None or <<BOOLEAN>>
    first_csv,       \* the CSV the directory lists first: None or <<file>>
    run,             \* which run of the script this is: 1 or 2
    previous         \* what the first run left: None or <<record>>

vars == <<config_exists, raw_dir, csv_content, filename, auto_detect, pc, df,
          detect_error, exc, overview_data, printed, stats, written, results,
          calls, result, first_csv, run, previous>>

(***************************************************************************)
(* Bounds of the model.                                                    *)
(***************************************************************************)
\* Rows of a CSV file read by a run.
MaxRows == 2
\* Largest class count of the ratios C9_TiersOfCounts ranges over.
MaxCount == 14

None == <<>>
Some(x) == <<x>>

NA == [k |-> "na", v |-> 0]
Str(n) == [k |-> "str", v |-> n]
Num(n) == [k |-> "num", v |-> n]
\* A True (1) or False (0) field.
Bool(b) == [k |-> "bool", v |-> b]

Min(S) == CHOOSE x \in S : \A y \in S : x <= y
Max(S) == CHOOSE x \in S : \A y \in S : x >= y

RECURSIVE Sum(_, _)
Sum(f, S) == IF S = {} THEN 0
             ELSE LET x == CHOOSE y \in S : TRUE IN f[x] + Sum(f, S \ {x})

(***************************************************************************)
(* pandas: the table operations the code uses.                             *)
(***************************************************************************)
NRows(t) == Len(t.rows)
ColIdx(t) == 1..Len(t.cols)
HasCol(t, name) == \E i \in ColIdx(t) : t.cols[i] = name
ColOf(t, name) == CHOOSE i \in ColIdx(t) : t.cols[i] = name
Cells(t, i) == [r \in 1..NRows(t) |-> t.rows[r][i]]
Column(t, name) == Cells(t, ColOf(t, name))

\* read_csv's type inference: a column without rows or holding text is
\* 'object'; one of True/False alone is bool, and object once anything else
\* sits beside them; one of numbers is int64, float64 once a value is
\* missing.
Dtype(t, i) ==
    LET kinds == {t.rows[r][i].k : r \in 1..NRows(t)}
    IN IF kinds = {} \/ "str" \in kinds THEN "object"
       ELSE IF kinds = {"bool"} THEN "bool"
       ELSE IF "bool" \in kinds THEN "object"
       ELSE IF "na" \in kinds THEN "float64"
       ELSE "int64"

IsNumeric(t, i) == Dtype(t, i) \in {"int64", "float64"}

\* Series.nunique(): the number of distinct values, missing ones dropped.
NUnique(t, i) ==
    Cardinality({t.rows[r][i] : r \in {q \in 1..NRows(t) : t.rows[q][i].k # "na"}})

\* DataFrame.rename(columns={old: new}): a name that is absent is ignored.
Rename(t, old, new) ==
    [t EXCEPT !.cols = [i \in ColIdx(t) |-> IF t.cols[i] = old THEN new ELSE t.cols[i]]]

(***************************************************************************)
(* Column detection.                                                       *)
(***************************************************************************)
NoColumn == "<ValueError>"

possible_query_names == <<"query", "Query", "sql", "SQL", "statement", "Payload", "payload">>
possible_label_names == <<"label", "Label", "target", "class", "Label ">>

\* The lookup walking the table's columns instead of the list.
FirstPresentInTableOrder(names, t) ==
    LET hit == {i \in ColIdx(t) : \E n \in 1..Len(names) : names[n] = t.cols[i]}
    IN IF hit = {} THEN NoColumn ELSE t.cols[Min(hit)]

\* for col in possible_names: if col in df.columns: return col
FirstPresent(names, t) ==
    LET hit == {i \in 1..Len(names) : HasCol(t, names[i])}
    IN IF hit = {} THEN NoColumn ELSE names[Min(hit)]

detect_query_column(t) ==
    LET byName == FirstPresent(possible_query_names, t)
        text_cols == {i \in ColIdx(t) : Dtype(t, i) = "object"}
    IN IF byName # NoColumn THEN byName
       ELSE IF text_cols # {} THEN t.cols[Min(text_cols)]
       ELSE NoColumn

detect_label_column(t) ==
    LET byName == FirstPresent(possible_label_names, t)
        binary == {i \in ColIdx(t) : IsNumeric(t, i) /\ NUnique(t, i) = 2}
    IN IF byName # NoColumn THEN byName
       ELSE IF binary # {} THEN t.cols[Min(binary)]
       ELSE NoColumn

\* Lines 48-52: the two renames, each skipped when the detected name is
\* already the canonical one.
Standardize(t, query_col, label_col) ==
    LET t1 == IF query_col # "query" THEN Rename(t, query_col, "query") ELSE t
    IN IF label_col # "label" THEN Rename(t1, label_col, "label") ELSE t1

(***************************************************************************)
(* The file system the loader reads.  A file name is a record [stem, ext]. *)
(* data.csv is a regular file holding csv_content.  link.csv is a symbolic *)
(* link whose target is gone: glob lists it, os.path.exists is False.      *)
(***************************************************************************)
File(stem, ext) == [stem |-> stem, ext |-> ext]
DataCsv == File("data", "csv")
LinkCsv == File("link", "csv")
NotesTxt == File("notes", "txt")
MissingCsv == File("missing", "csv")

\* Path(raw_data_path).glob("*.csv")
Glob(dir) == {f \in dir : f.ext = "csv"}
\* os.path.lexists: true of a dangling link too.
ExistsListed(dir, f) == f \in dir

\* os.path.exists(os.path.join(raw_data_path, filename))
Exists(dir, f) == f \in dir /\ f # LinkCsv

NoExc == [type |-> "none", at |-> "none"]
Raise(type, at) == [type |-> type, at |-> at]

\* A handler that lets the detection's ValueError through.
LoaderCatchesButValueError(type) == type # "ValueError"

\* Line 59: 'except Exception' catches every exception of the try block.
LoaderCatches(type) == TRUE

\* Lines 39-61: the try block of load_sql_injection_dataset on the content
\* of the file: the value returned, the exception that leaves the function
\* and the detection that failed.
ParseOutcome(content) ==
    LET query_col == detect_query_column(content)
        label_col == IF query_col = NoColumn THEN NoColumn
                     ELSE detect_label_column(content)
        raised == IF ~content.wellformed THEN "ParserError"
                  ELSE IF query_col = NoColumn \/ label_col = NoColumn THEN "ValueError"
                  ELSE "none"
        failed == IF ~content.wellformed THEN "none"
                  ELSE IF query_col = NoColumn THEN "query"
                  ELSE IF label_col = NoColumn THEN "label"
                  ELSE "none"
    IN [df |-> IF raised = "none"
               THEN Some(Standardize([cols |-> content.cols, rows |-> content.rows],
                                     query_col, label_col))
               ELSE None,
        exc |-> IF raised # "none" /\ ~LoaderCatches(raised)
                THEN Raise(raised, "load") ELSE NoExc,
        detect_error |-> failed]

(***************************************************************************)
(* Floating-point results.  A ratio of two counts is kept exact as         *)
(* [kind |-> "num", num, den]; NaN compares False with everything.         *)
(***************************************************************************)
NaN == [kind |-> "nan", num |-> 0, den |-> 1]
Ratio(n, d) == [kind |-> "num", num |-> n, den |-> d]
\* x <= a/b  and  x > a/b, for b > 0
LessEq(x, a, b) == x.kind = "num" /\ x.num * b <= a * x.den
Greater(x, a, b) == x.kind = "num" /\ x.num * b > a * x.den

(***************************************************************************)
(* dataset_overview.                                                       *)
(***************************************************************************)
\* Line 116: df['label'].value_counts().sort_index(): the count of each
\* value of the column, missing values dropped.
value_counts(col) ==
    LET present == {col[r] : r \in {q \in DOMAIN col : col[q].k # "na"}}
    IN [c \in present |-> Cardinality({r \in DOMAIN col : col[r] = c})]

\* Lines 124-126: max() and min() of an empty Series are NaN.
BalanceRatio(label_counts) ==
    IF DOMAIN label_counts = {} THEN NaN
    ELSE Ratio(Max({label_counts[c] : c \in DOMAIN label_counts}),
               Min({label_counts[c] : c \in DOMAIN label_counts}))

\* Lines 130-137.
Quality(balance_ratio) ==
    IF LessEq(balance_ratio, 12, 10) THEN "EXCELLENT "
    ELSE IF LessEq(balance_ratio, 2, 1) THEN "GOOD "
    ELSE IF LessEq(balance_ratio, 5, 1) THEN "FAIR "
    ELSE "POOR "

\* Line 143: df.isnull().sum(), per column name.
MissingValues(t) ==
    [name \in {t.cols[i] : i \in ColIdx(t)} |->
        Cardinality({r \in 1..NRows(t) : Column(t, name)[r].k = "na"})]

\* str(value): a text is itself, a missing value is 'nan', a number of an
\* int64 column is its digit, of a float64 column 'd.0'.
StrLen(cell, dtype) ==
    IF cell.k = "str" THEN cell.v
    ELSE IF cell.k = "na" THEN 3
    ELSE IF cell.k = "bool" THEN (IF cell.v = 1 THEN 4 ELSE 5)
    ELSE IF dtype = "float64" THEN 3
    ELSE 1

\* df['query'].astype(str).str.len()
QueryLengths(t) ==
    [r \in 1..NRows(t) |-> StrLen(Column(t, "query")[r], Dtype(t, ColOf(t, "query")))]

\* Series.min() and Series.max(): NaN for an empty Series.
MinLength(query_lengths) ==
    IF DOMAIN query_lengths = {} THEN NaN
    ELSE Ratio(Min({query_lengths[r] : r \in DOMAIN query_lengths}), 1)
MaxLength(query_lengths) ==
    IF DOMAIN query_lengths = {} THEN NaN
    ELSE Ratio(Max({query_lengths[r] : r \in DOMAIN query_lengths}), 1)

\* Lines 180-182, and lines 178-182 of the driver.
ShortQueries(query_lengths) ==
    Cardinality({r \in DOMAIN query_lengths : query_lengths[r] < 50})
\* 'between 50 and 200' with both ends included.
MediumQueriesInclusive(query_lengths) ==
    Cardinality({r \in DOMAIN query_lengths :
                    query_lengths[r] >= 50 /\ query_lengths[r] <= 200})

MediumQueries(query_lengths) ==
    Cardinality({r \in DOMAIN query_lengths :
                    query_lengths[r] >= 50 /\ query_lengths[r] < 200})
LongQueries(query_lengths) ==
    Cardinality({r \in DOMAIN query_lengths : query_lengths[r] >= 200})

\* Lines 197-206: the report returned (memory_usage_mb and the float
\* statistics of query_stats are left out: no property reads them).
dataset_overview(t) ==
    LET label_counts == value_counts(Column(t, "label"))
    IN [total_records |-> NRows(t),
        total_columns |-> Len(t.cols),
        columns |-> t.cols,
        class_distribution |-> IF HasCol(t, "label") THEN Some(label_counts) ELSE None,
        balance_ratio |-> IF HasCol(t, "label") THEN Some(BalanceRatio(label_counts))
                          ELSE None,
        missing_values |-> MissingValues(t),
        query_stats |-> IF HasCol(t, "query")
                        THEN Some([min_length |-> MinLength(QueryLengths(t)),
                                   max_length |-> MaxLength(QueryLengths(t))])
                        ELSE None]

\* What dataset_overview prints and does not return: the tier (line 139)
\* and the three length buckets (lines 185-187).
OverviewPrinted(t) ==
    [quality |-> IF HasCol(t, "label")
                 THEN Some(Quality(BalanceRatio(value_counts(Column(t, "label")))))
                 ELSE None,
     length_distribution |->
        IF HasCol(t, "query")
        THEN Some([short |-> ShortQueries(QueryLengths(t)),
                   medium |-> MediumQueries(QueryLengths(t)),
                   long |-> LongQueries(QueryLengths(t))])
        ELSE None]

(***************************************************************************)
(* show_sample_queries and the driver's own computations.                  *)
(***************************************************************************)
\* df['label'].unique(): the distinct values, a missing one included.
Unique(col) == {col[r] : r \in DOMAIN col}

\* sorted(...) over text and NaN together: '<' between str and float
\* raises TypeError.
SortedRaises(values) ==
    (\E c \in values : c.k = "str") /\ (\E c \in values : c.k # "str")

\* df[df['label'] == label]: the rows of a class (NaN equals nothing).
ClassRows(t, label) ==
    {r \in 1..NRows(t) : label.k # "na" /\ Column(t, "label")[r] = label}

\* head(n): the first n of the given rows, in file order.
RECURSIVE HeadQueries(_, _, _)
HeadQueries(t, rs, n) ==
    IF rs = {} \/ n = 0 THEN <<>>
    ELSE <<Column(t, "query")[Min(rs)]>> \o HeadQueries(t, rs \ {Min(rs)}, n - 1)

\* Lines 214-241: the exception show_sample_queries ends with, or "none".
ShowSamplesError(t) ==
    IF HasCol(t, "label")
    THEN IF SortedRaises(Unique(Column(t, "label"))) THEN "TypeError"
         ELSE IF Unique(Column(t, "label")) # {} /\ ~HasCol(t, "query") THEN "KeyError"
         ELSE "none"
    ELSE IF ~HasCol(t, "query") THEN "KeyError" ELSE "none"

\* Lines 61-93: the exception the driver's statistics end with: df['query']
\* on a table without that column, sorted() as above, int(nan) for the
\* minimum length of a class without rows (the class of the missing label).
StatsError(t) ==
    IF ~HasCol(t, "query") THEN "KeyError"
    ELSE IF ~HasCol(t, "label") THEN "none"
    ELSE IF SortedRaises(Unique(Column(t, "label"))) THEN "TypeError"
    ELSE IF \E c \in Unique(Column(t, "label")) : ClassRows(t, c) = {} THEN "ValueError"
    ELSE "none"

\* Lines 73-93: "count" of each class of class_detailed_stats.
ClassCounts(t) ==
    IF HasCol(t, "label")
    THEN [c \in Unique(Column(t, "label")) |-> Cardinality(ClassRows(t, c))]
    ELSE [c \in {} |-> 0]

\* bool(x) of an optional float: None and 0.0 are false, NaN is true.
Truthy(x) == x # None /\ ~(x[1].kind = "num" /\ x[1].num = 0)

\* Lines 96-111.
BalanceQuality(overview) ==
    IF Truthy(overview.balance_ratio)
    THEN IF LessEq(overview.balance_ratio[1], 12, 10) THEN "EXCELLENT"
         ELSE IF LessEq(overview.balance_ratio[1], 2, 1) THEN "GOOD"
         ELSE IF LessEq(overview.balance_ratio[1], 5, 1) THEN "FAIR"
         ELSE "POOR"
    ELSE "EXCELLENT"

\* Lines 118-227: the exception building the results document ends with:
\* round(None, 2) for a balance_ratio of None (line 157), int(nan) for the
\* minimum length of a table without rows (line 170).
BuildError(t, overview) ==
    IF overview.balance_ratio = None THEN "TypeError"
    ELSE IF MinLength(QueryLengths(t)).kind = "nan" THEN "ValueError"
    ELSE "none"

\* The total taken over the text column alone.
MissingTotalOfQuery(overview) ==
    IF "query" \in DOMAIN overview.missing_values
    THEN overview.missing_values["query"] ELSE 0

\* sum(missing_values.values())
MissingTotal(overview) ==
    Sum(overview.missing_values, DOMAIN overview.missing_values)

\* Lines 118-227: the fields of the document the properties read.
CompleteResults(t, overview, st) ==
    [total_records |-> NRows(t),
     total_columns |-> Len(t.cols),
     column_names |-> t.cols,
     summary |-> overview.class_distribution,
     detailed_stats |-> st.class_counts,
     balance_ratio |-> overview.balance_ratio,
     balance_quality |-> st.balance_quality,
     length_distribution |->
        [short |-> ShortQueries(st.query_lengths),
         medium |-> MediumQueries(st.query_lengths),
         long |-> LongQueries(st.query_lengths)],
     missing_values |-> overview.missing_values,
     missing_values_total |-> MissingTotal(overview),
     has_missing_values |-> MissingTotal(overview) > 0,
     quality_status |-> IF MissingTotal(overview) = 0 THEN "EXCELLENT"
                        ELSE "NEEDS_ATTENTION",
     normal_queries_samples |->
        IF HasCol(t, "label") THEN HeadQueries(t, ClassRows(t, Num(0)), 3) ELSE <<>>,
     malicious_queries_samples |->
        IF HasCol(t, "label") THEN HeadQueries(t, ClassRows(t, Num(1)), 3) ELSE <<>>,
     random_samples |-> HeadQueries(t, 1..NRows(t), 5)]

(***************************************************************************)
(* The inputs: the CSV files the model reads.                              *)
(***************************************************************************)
ColNames == {"query", "Payload", "label", "Label ", "text", "flag"}
TextCells == {NA, Str(49), Str(50), Str(200)}
NumCells == {NA, Num(0), Num(1)}

\* A file read_csv cannot parse.
Malformed == [wellformed |-> FALSE, cols |-> <<>>, rows |-> <<>>]

\* A table with a third column: its one missing cell is outside the text
\* column.
NotedTable ==
    [wellformed |-> TRUE, cols |-> <<"query", "label", "note">>,
     rows |-> <<<<Str(49), Num(0), NA>>, <<Str(50), Num(1), Str(49)>>>>]

\* A table holding two candidate names of each list, the later name of
\* each list in the earlier column.
CandidatesTable ==
    [wellformed |-> TRUE, cols |-> <<"Payload", "query", "Label ", "label">>,
     rows |-> <<<<Str(49), Str(50), Num(0), Num(1)>>,
                <<Str(200), Str(49), Num(1), Num(0)>>>>]

\* A table of a True/False column and a 0/1 column, neither under a
\* candidate name.
FlagsTable ==
    [wellformed |-> TRUE, cols |-> <<"flag", "score">>,
     rows |-> <<<<Bool(1), Num(0)>>, <<Bool(0), Num(1)>>>>]

\* A table of more rows of each class than the samples take.
ManyRowsTable ==
    [wellformed |-> TRUE, cols |-> <<"query", "label">>,
     rows |-> <<<<Str(49), Num(0)>>, <<Str(50), Num(1)>>, <<Str(200), Num(0)>>,
                <<Str(49), Num(1)>>, <<Str(50), Num(0)>>, <<Str(200), Num(1)>>,
                <<Str(200), Num(0)>>, <<Str(50), Num(1)>>, <<Str(49), Num(0)>>>>]

\* c is the content of a CSV file: unparsable, or a table of at most
\* MaxRows rows and two columns, each column of text or of numbers.
IsContent(c) ==
    \/ c = Malformed
    \/ c \in {NotedTable, CandidatesTable, FlagsTable, ManyRowsTable}
    \/ \E n \in 0..MaxRows, a \in ColNames, b \in ColNames,
          ca \in {TextCells, NumCells}, cb \in {TextCells, NumCells} :
            /\ a # b
            /\ c \in [wellformed : {TRUE}, cols : {<<a, b>>}, rows : [1..n -> ca \X cb]]

\* Two rows of the sample scenario of the documentation: a query of each class.
SampleTable ==
    [wellformed |-> TRUE, cols |-> <<"query", "label">>,
     rows |-> <<<<Str(49), Num(0)>>, <<Str(50), Num(1)>>>>]

\* A table of two text columns, neither named like a label.
UnlabelledTable ==
    [wellformed |-> TRUE, cols |-> <<"Payload", "text">>,
     rows |-> <<<<Str(50), Str(49)>>>>]

DirEntries == {DataCsv, LinkCsv, NotesTxt}
FileArgs == {DataCsv, LinkCsv, MissingCsv}

\* read_csv(file_path): data.csv is the one regular file of the directory.
FileContent(f) == csv_content

(***************************************************************************)
(* Initial states.                                                         *)
(***************************************************************************)
Fresh ==
    /\ df = None
    /\ detect_error = "none"
    /\ exc = NoExc
    /\ overview_data = None
    /\ printed = None
    /\ stats = None
    /\ written = {}
    /\ results = None
    /\ calls = <<>>
    /\ result = None

\* Every content is read from a directory holding data.csv alone; the other
\* directories hold data.csv, when they do, with one of two contents.
Files ==
    \/ /\ raw_dir = {DataCsv}
       /\ IsContent(csv_content)
    \/ /\ raw_dir \in SUBSET DirEntries
       /\ csv_content \in IF DataCsv \in raw_dir THEN {Malformed, SampleTable}
                          ELSE {Malformed}

\* The first run of the script, in a directory whose listing, and so the
\* file glob yields first, stays as it is while the directory is unchanged.
FirstRun ==
    /\ first_csv \in IF Glob(raw_dir) = {} THEN {None}
                     ELSE {Some(f) : f \in Glob(raw_dir)}
    /\ run = 1
    /\ previous = None

\* python task2_dataset_loading.py: main() calls the loader with its
\* default arguments.
Init ==
    /\ config_exists \in BOOLEAN
    /\ Files
    /\ config_exists = FALSE => raw_dir = {}
    /\ filename = None
    /\ auto_detect = TRUE
    /\ pc = "main"
    /\ Fresh
    /\ FirstRun

\* A caller of load_sql_injection_dataset with arguments of its choice.
LoaderInit ==
    /\ config_exists = TRUE
    /\ raw_dir \in SUBSET DirEntries
    /\ csv_content \in IF DataCsv \in raw_dir
                       THEN {Malformed, SampleTable, UnlabelledTable}
                       ELSE {Malformed}
    /\ filename \in {None} \cup {Some(f) : f \in FileArgs}
    /\ auto_detect \in BOOLEAN
    /\ pc = "load"
    /\ Fresh
    /\ FirstRun

(***************************************************************************)
(* load_sql_injection_dataset.                                             *)
(***************************************************************************)
Raised(type, at) ==
    /\ exc' = Raise(type, at)
    /\ pc' = "raised"

\* Lines 23-32.  csv_files[0] is the first file glob yields, in the order
\* the directory lists them.
LoadResolve ==
    /\ pc = "load"
    /\ calls' = Append(calls, "load")
    /\ IF filename = None /\ auto_detect
       THEN IF Glob(raw_dir) # {}
            THEN /\ filename' = first_csv
                 /\ pc' = "load_path"
                 /\ exc' = exc
            ELSE /\ Raised("FileNotFoundError", "load")
                 /\ filename' = filename
       ELSE /\ pc' = "load_path"
            /\ UNCHANGED <<filename, exc>>
    /\ UNCHANGED <<first_csv, run, previous, config_exists, raw_dir, csv_content, auto_detect, df, detect_error,
                   overview_data, printed, stats, written, results, result>>

\* Lines 34-37.  os.path.join(path, None) raises TypeError.
LoadCheckPath ==
    /\ pc = "load_path"
    /\ IF filename = None THEN Raised("TypeError", "load")
       ELSE IF ~Exists(raw_dir, filename[1]) THEN Raised("FileNotFoundError", "load")
       ELSE pc' = "load_parse" /\ exc' = exc
    /\ UNCHANGED <<first_csv, run, previous, config_exists, raw_dir, csv_content, filename, auto_detect, df,
                   detect_error, overview_data, printed, stats, written, results,
                   calls, result>>

\* Lines 39-61.
LoadParse ==
    /\ pc = "load_parse"
    /\ LET o == ParseOutcome(FileContent(filename[1]))
       IN /\ df' = o.df
          /\ detect_error' = o.detect_error
          /\ exc' = o.exc
          /\ pc' = IF o.exc = NoExc THEN "loaded" ELSE "raised"
    /\ calls' = Append(calls, "read_csv")
    /\ UNCHANGED <<first_csv, run, previous, config_exists, raw_dir, csv_content, filename, auto_detect,
                   overview_data, printed, stats, written, results, result>>

(***************************************************************************)
(* main().                                                                 *)
(***************************************************************************)
\* Line 34: DatasetLoader() opens config.json.
MainInitLoader ==
    /\ pc = "main"
    /\ IF config_exists THEN pc' = "load" /\ exc' = exc
       ELSE Raised("FileNotFoundError", "init")
    /\ UNCHANGED <<first_csv, run, previous, config_exists, raw_dir, csv_content, filename, auto_detect, df,
                   detect_error, overview_data, printed, stats, written, results,
                   calls, result>>

\* Lines 40-47.
MainCheckLoaded ==
    /\ pc = "loaded"
    /\ IF df = None THEN pc' = "done" /\ result' = Some(FALSE)
       ELSE pc' = "overview" /\ result' = result
    /\ UNCHANGED <<first_csv, run, previous, config_exists, raw_dir, csv_content, filename, auto_detect, df,
                   detect_error, exc, overview_data, printed, stats, written, results,
                   calls>>

\* dataset_overview storing the lengths in the table, as a new column.
MainOverviewAttachesLength ==
    /\ pc = "overview"
    /\ calls' = Append(calls, "dataset_overview")
    /\ overview_data' = Some(dataset_overview(df[1]))
    /\ printed' = Some(OverviewPrinted(df[1]))
    /\ df' = IF HasCol(df[1], "query")
             THEN Some([cols |-> Append(df[1].cols, "query_length"),
                        rows |-> [r \in 1..NRows(df[1]) |->
                                    Append(df[1].rows[r], Num(QueryLengths(df[1])[r]))]])
             ELSE df
    /\ pc' = "samples"
    /\ UNCHANGED <<first_csv, run, previous, config_exists, raw_dir, csv_content, filename, auto_detect,
                   detect_error, exc, stats, written, results, result>>

\* Line 51.
MainOverview ==
    /\ pc = "overview"
    /\ calls' = Append(calls, "dataset_overview")
    /\ overview_data' = Some(dataset_overview(df[1]))
    /\ printed' = Some(OverviewPrinted(df[1]))
    /\ pc' = "samples"
    /\ UNCHANGED <<first_csv, run, previous, config_exists, raw_dir, csv_content, filename, auto_detect, df,
                   detect_error, exc, stats, written, results, result>>

\* Line 55.
MainShowSamples ==
    /\ pc = "samples"
    /\ calls' = Append(calls, "show_sample_queries")
    /\ IF ShowSamplesError(df[1]) # "none"
       THEN Raised(ShowSamplesError(df[1]), "show_sample_queries")
       ELSE pc' = "compute" /\ exc' = exc
    /\ UNCHANGED <<first_csv, run, previous, config_exists, raw_dir, csv_content, filename, auto_detect, df,
                   detect_error, overview_data, printed, stats, written, results,
                   result>>

\* Lines 57-111.
MainComputeStats ==
    /\ pc = "compute"
    /\ IF StatsError(df[1]) # "none"
       THEN /\ Raised(StatsError(df[1]), "compute")
            /\ stats' = stats
       ELSE /\ stats' = Some([query_lengths |-> QueryLengths(df[1]),
                              class_counts |-> ClassCounts(df[1]),
                              balance_quality |-> BalanceQuality(overview_data[1])])
            /\ pc' = "save_overview"
            /\ exc' = exc
    /\ UNCHANGED <<first_csv, run, previous, config_exists, raw_dir, csv_content, filename, auto_detect, df,
                   detect_error, overview_data, printed, written, results, calls,
                   result>>

\* Line 115: save_overview_report (lines 243-255) writes the report.
MainSaveOverview ==
    /\ pc = "save_overview"
    /\ calls' = Append(calls, "save_overview_report")
    /\ written' = written \cup {"overview"}
    /\ pc' = "save_results"
    /\ UNCHANGED <<first_csv, run, previous, config_exists, raw_dir, csv_content, filename, auto_detect, df,
                   detect_error, exc, overview_data, printed, stats, results, result>>

\* The build of the document guarded by a bare 'except: pass'.
MainSaveResultsSwallows ==
    /\ pc = "save_results"
    /\ IF BuildError(df[1], overview_data[1]) # "none"
       THEN UNCHANGED <<results, written, calls>>
       ELSE /\ results' = Some(CompleteResults(df[1], overview_data[1], stats[1]))
            /\ written' = written \cup {"results"}
            /\ calls' = Append(calls, "write_results")
    /\ result' = Some(TRUE)
    /\ pc' = "done"
    /\ UNCHANGED <<first_csv, run, previous, config_exists, raw_dir, csv_content, filename, auto_detect, df,
                   detect_error, exc, overview_data, printed, stats>>

\* The results document with the 'task_info' block of lines 119-125 in
\* force: a timestamp of the run is serialised.
MainSaveResultsStamped ==
    /\ pc = "save_results"
    /\ IF BuildError(df[1], overview_data[1]) # "none"
       THEN /\ Raised(BuildError(df[1], overview_data[1]), "build_results")
            /\ UNCHANGED <<results, written, calls, result>>
       ELSE /\ results' = Some([timestamp |-> run]
                                  @@ CompleteResults(df[1], overview_data[1], stats[1]))
            /\ written' = written \cup {"results"}
            /\ calls' = Append(calls, "write_results")
            /\ result' = Some(TRUE)
            /\ pc' = "done"
            /\ exc' = exc
    /\ UNCHANGED <<first_csv, run, previous, config_exists, raw_dir, csv_content,
                   filename, auto_detect, df, detect_error, overview_data, printed,
                   stats>>

\* Lines 117-290: build the document, write it, return True.
MainSaveResults ==
    /\ pc = "save_results"
    /\ IF BuildError(df[1], overview_data[1]) # "none"
       THEN /\ Raised(BuildError(df[1], overview_data[1]), "build_results")
            /\ UNCHANGED <<results, written, calls, result>>
       ELSE /\ results' = Some(CompleteResults(df[1], overview_data[1], stats[1]))
            /\ written' = written \cup {"results"}
            /\ calls' = Append(calls, "write_results")
            /\ result' = Some(TRUE)
            /\ pc' = "done"
            /\ exc' = exc
    /\ UNCHANGED <<first_csv, run, previous, config_exists, raw_dir, csv_content, filename, auto_detect, df,
                   detect_error, overview_data, printed, stats>>

\* Line 292: 'except FileNotFoundError'.
CaughtAsNotFound(type) == type = "FileNotFoundError"
\* 'except ValueError' in place of 'except Exception'.
CaughtAsValueError(type) == type = "ValueError"

\* Line 307: 'except Exception': every exception the code above raises.
CaughtAsException(type) == TRUE

\* Lines 292-305.
MainHandleNotFound ==
    /\ pc = "raised"
    /\ CaughtAsNotFound(exc.type)
    /\ result' = Some(FALSE)
    /\ pc' = "done"
    /\ UNCHANGED <<first_csv, run, previous, config_exists, raw_dir, csv_content, filename, auto_detect, df,
                   detect_error, exc, overview_data, printed, stats, written, results,
                   calls>>

\* Lines 307-313.
MainHandleException ==
    /\ pc = "raised"
    /\ ~CaughtAsNotFound(exc.type)
    /\ CaughtAsException(exc.type)
    /\ result' = Some(FALSE)
    /\ pc' = "done"
    /\ UNCHANGED <<first_csv, run, previous, config_exists, raw_dir, csv_content, filename, auto_detect, df,
                   detect_error, exc, overview_data, printed, stats, written, results,
                   calls>>

LoaderNext ==
    \/ LoadResolve
    \/ LoadCheckPath
    \/ LoadParse

Next ==
    \/ MainInitLoader
    \/ LoadResolve
    \/ LoadCheckPath
    \/ LoadParse
    \/ MainCheckLoaded
    \/ MainOverview
    \/ MainShowSamples
    \/ MainComputeStats
    \/ MainSaveOverview
    \/ MainSaveResults
    \/ MainHandleNotFound
    \/ MainHandleException

Spec == Init /\ [][Next]_vars

LoaderSpec == LoaderInit /\ [][LoaderNext]_vars

\* What a run leaves: the two JSON files it wrote, with the file it
\* detected and the value main() returned.
Artifacts ==
    [overview |-> IF "overview" \in written THEN overview_data ELSE None,
     results |-> IF "results" \in written THEN results ELSE None,
     filename |-> filename,
     result |-> result]

\* python task2_dataset_loading.py once more: a new process, the
\* directory, the CSV and config.json as they were.
MainRerun ==
    /\ pc = "done"
    /\ run = 1
    /\ run' = 2
    /\ previous' = Some(Artifacts)
    /\ pc' = "main"
    /\ filename' = None
    /\ df' = None
    /\ detect_error' = "none"
    /\ exc' = NoExc
    /\ overview_data' = None
    /\ printed' = None
    /\ stats' = None
    /\ written' = {}
    /\ results' = None
    /\ calls' = <<>>
    /\ result' = None
    /\ UNCHANGED <<first_csv, config_exists, raw_dir, csv_content, auto_detect>>

RerunNext ==
    \/ Next
    \/ MainRerun

RerunSpec == Init /\ [][RerunNext]_vars

(***************************************************************************)
(* Properties.                                                             *)
(***************************************************************************)
Done == pc = "done"

\* C1 (as stated): when the text or the label column cannot be detected, a
\* ValueError propagates to the caller of load_sql_injection_dataset.
C1_DetectionErrorPropagates ==
    detect_error # "none" => exc.type = "ValueError"

\* C1 (amended): when the text or the label column cannot be detected, the
\* loader catches the ValueError and returns a null result: no exception
\* reaches the caller, and the driver ends with False.
C1_DetectionErrorIsNullResult ==
    detect_error # "none" =>
        /\ df = None
        /\ exc = NoExc
        /\ pc \in {"loaded", "done"}
        /\ Done => result = Some(FALSE)

C1_Witness ==
    /\ detect_error = "label"
    /\ csv_content.wellformed
    /\ Done

\* C2: in every run of main() that returns False no JSON artifact has been
\* written.
C2_NoArtifactOnFailure ==
    result = Some(FALSE) => written = {}

\* C3: the driver's steps run in the fixed order load, dataset_overview,
\* show_sample_queries, write overview report, write results document; no
\* step runs after a failed one; a null table ends the run with False, no
\* analysis and no file; True is returned only with both files written.
StepOrder ==
    <<"load", "read_csv", "dataset_overview", "show_sample_queries",
      "save_overview_report", "write_results">>

IsPrefix(s, t) == Len(s) <= Len(t) /\ \A i \in 1..Len(s) : s[i] = t[i]
Ran(step) == \E i \in 1..Len(calls) : calls[i] = step

\* The steps that have run when an exception leaves the given place.
StepsThrough(at) ==
    CASE at = "init" -> 0
      [] at = "load" -> 1
      [] at = "show_sample_queries" -> 4
      [] at = "compute" -> 4
      [] at = "build_results" -> 5

C3_StepsInOrder ==
    /\ IsPrefix(calls, StepOrder)
    /\ "overview" \in written <=> Ran("save_overview_report")
    /\ "results" \in written <=> Ran("write_results")
    /\ exc # NoExc => Len(calls) = StepsThrough(exc.at)
    /\ (Ran("read_csv") /\ pc # "load_parse" /\ df = None) =>
            /\ ~Ran("dataset_overview")
            /\ written = {}
            /\ Done => result = Some(FALSE)
    /\ Ran("dataset_overview") => df # None
    /\ result = Some(TRUE) => calls = StepOrder /\ written = {"overview", "results"}

C3_Witness ==
    /\ result = Some(TRUE)
    /\ calls = StepOrder
    /\ written = {"overview", "results"}

\* C4: every non-null table the loader returns has a column 'query' and a
\* column 'label'.
C4_CanonicalNames ==
    df # None => HasCol(df[1], "query") /\ HasCol(df[1], "label")

\* C5: the loader raises FileNotFoundError to its caller, before the file
\* is read, exactly when no filename is given, auto-detect is on and the
\* directory lists no CSV, or when the resolved file does not exist.
C5_NoCsv ==
    filename = None /\ auto_detect /\ {f \in raw_dir : f.ext = "csv"} = {}
C5_Absent ==
    filename # None /\ ~(filename[1] \in raw_dir \ {LinkCsv})

C5_NotFoundExactly ==
    /\ pc = "raised" => (exc.type = "FileNotFoundError" <=> C5_NoCsv \/ C5_Absent)
    /\ pc \in {"load_parse", "loaded"} => ~C5_NoCsv /\ ~C5_Absent /\ exc = NoExc
    /\ exc.type = "FileNotFoundError" =>
            pc = "raised" /\ df = None /\ ~Ran("read_csv")

C5_Witness ==
    /\ pc = "raised"
    /\ exc.type = "FileNotFoundError"
    /\ filename = Some(LinkCsv)
    /\ DataCsv \in raw_dir

\* C6: every run of main() ends by returning a boolean: an exception that
\* is raised is caught by one of main()'s two handlers, never escapes, and
\* a run in which an exception was raised or the loader returned a null
\* table returns False.
C6_MainReturnsBoolean ==
    /\ pc = "raised" => ENABLED (MainHandleNotFound \/ MainHandleException)
    /\ result # None => Done
    /\ Done =>
        /\ result \in {Some(TRUE), Some(FALSE)}
        /\ exc # NoExc => result = Some(FALSE)
        /\ df = None => result = Some(FALSE)

C6_Witness ==
    /\ Done
    /\ result = Some(FALSE)
    /\ exc.type \notin {"none", "FileNotFoundError"}

\* C7: for a table with a label column, the per-label counts of
\* 'class_distribution' sum to 'total_records'.
C7_CountsSumToTotal ==
    (overview_data # None /\ overview_data[1].class_distribution # None) =>
        Sum(overview_data[1].class_distribution[1],
            DOMAIN overview_data[1].class_distribution[1])
            = overview_data[1].total_records

\* C8: for a table with a label column, 'balance_ratio' is the largest
\* per-label count divided by the smallest, and is at least 1.
C8_BalanceRatioAtLeastOne ==
    (overview_data # None /\ overview_data[1].balance_ratio # None) =>
        LET r == overview_data[1].balance_ratio[1]
            counts == overview_data[1].class_distribution[1]
        IN /\ r.kind = "num"
           /\ r.num >= r.den
           /\ \A c \in DOMAIN counts : r.den <= counts[c] /\ counts[c] <= r.num

\* C9: the tier is EXCELLENT iff r <= 1.2, GOOD iff 1.2 < r <= 2.0, FAIR
\* iff 2.0 < r <= 5.0, POOR iff r > 5.0, for the tier dataset_overview
\* assigns to every ratio it returns and for the 'balance_quality' the
\* driver derives from it, which name the same tier.
TierOf(r) ==
    [excellent |-> LessEq(r, 12, 10),
     good |-> Greater(r, 12, 10) /\ LessEq(r, 2, 1),
     fair |-> Greater(r, 2, 1) /\ LessEq(r, 5, 1),
     poor |-> Greater(r, 5, 1)]

C9_TierFollowsThresholds ==
    /\ (printed # None /\ printed[1].quality # None) =>
        LET r == overview_data[1].balance_ratio[1]
            q == printed[1].quality[1]
        IN /\ q = "EXCELLENT " <=> TierOf(r).excellent
           /\ q = "GOOD " <=> TierOf(r).good
           /\ q = "FAIR " <=> TierOf(r).fair
           /\ q = "POOR " <=> TierOf(r).poor
    /\ (stats # None /\ overview_data[1].balance_ratio # None) =>
        LET r == overview_data[1].balance_ratio[1]
            q == stats[1].balance_quality
        IN /\ q = "EXCELLENT" <=> TierOf(r).excellent
           /\ q = "GOOD" <=> TierOf(r).good
           /\ q = "FAIR" <=> TierOf(r).fair
           /\ q = "POOR" <=> TierOf(r).poor
           /\ q = "EXCELLENT" <=> printed[1].quality[1] = "EXCELLENT "
           /\ q = "GOOD" <=> printed[1].quality[1] = "GOOD "
           /\ q = "FAIR" <=> printed[1].quality[1] = "FAIR "
           /\ q = "POOR" <=> printed[1].quality[1] = "POOR "

\* C9, for the ratios that are quotients of two counts (largest over
\* smallest, each at most MaxCount): both chains follow the thresholds,
\* the boundaries 1.2, 2.0 and 5.0 falling in the lower tier, and agree.
C9_TiersOfCounts ==
    \A n \in 1..MaxCount, d \in 1..MaxCount :
        n >= d =>
            LET r == Ratio(n, d)
                q == Quality(r)
                b == BalanceQuality([balance_ratio |-> Some(r)])
            IN /\ (q = "EXCELLENT " <=> TierOf(r).excellent)
               /\ (q = "GOOD " <=> TierOf(r).good)
               /\ (q = "FAIR " <=> TierOf(r).fair)
               /\ (q = "POOR " <=> TierOf(r).poor)
               /\ (b = "EXCELLENT" <=> TierOf(r).excellent)
               /\ (b = "GOOD" <=> TierOf(r).good)
               /\ (b = "FAIR" <=> TierOf(r).fair)
               /\ (b = "POOR" <=> TierOf(r).poor)

\* C10: the three length buckets partition the records: short + medium +
\* long is the record count, for the buckets dataset_overview computes and
\* for the 'length_distribution' of the driver, and the two are equal, a
\* record whose text is missing included.
BucketSum(b) == b.short + b.medium + b.long

C10_BucketsPartition ==
    /\ (printed # None /\ printed[1].length_distribution # None) =>
        BucketSum(printed[1].length_distribution[1]) = overview_data[1].total_records
    /\ results # None =>
        /\ BucketSum(results[1].length_distribution) = results[1].total_records
        /\ printed[1].length_distribution = Some(results[1].length_distribution)

C10_Witness ==
    /\ results # None
    /\ results[1].missing_values["query"] > 0
    /\ results[1].length_distribution.short > 0
    /\ results[1].length_distribution.long > 0

\* C11: dataset_overview and show_sample_queries leave the table as the
\* loader returned it: the same columns in the same order, the same rows
\* and cells, no length column attached, to the end of the run; and
\* 'total_columns' is the column count of the table as loaded.
C11_TableUnchanged ==
    Ran("dataset_overview") =>
        /\ df = ParseOutcome(csv_content).df
        /\ df[1].rows = csv_content.rows
        /\ Len(df[1].cols) = Len(csv_content.cols)
        /\ ~HasCol(df[1], "query_length")
        /\ overview_data[1].total_columns = Len(csv_content.cols)
        /\ overview_data[1].columns = df[1].cols
        /\ results # None =>
            /\ results[1].total_columns = Len(csv_content.cols)
            /\ results[1].column_names = df[1].cols

C11_Witness ==
    /\ Done
    /\ Ran("show_sample_queries")
    /\ result = Some(TRUE)
    /\ NRows(df[1]) = MaxRows

\* The cells of the file that are empty.
MissingCells ==
    {rc \in (1..Len(csv_content.rows)) \X (1..Len(csv_content.cols)) :
        csv_content.rows[rc[1]][rc[2]].k = "na"}

\* The rows of the file whose text field, the column the table calls
\* 'query', is empty.
MissingTexts ==
    {r \in 1..Len(csv_content.rows) : <<r, ColOf(df[1], "query")>> \in MissingCells}

\* C12: missing_values['query'] of the report is the number of rows whose
\* text field is missing; 'quality_status' is 'NEEDS_ATTENTION' exactly when
\* some cell of any column is missing and 'EXCELLENT' otherwise, and
\* 'has_missing_values' is true in exactly the same runs.
C12_MissingValuesCounted ==
    /\ overview_data # None /\ HasCol(df[1], "query") =>
          overview_data[1].missing_values["query"] = Cardinality(MissingTexts)
    /\ results # None =>
          /\ results[1].missing_values = overview_data[1].missing_values
          /\ results[1].missing_values_total = Cardinality(MissingCells)
          /\ results[1].has_missing_values = (MissingCells # {})
          /\ results[1].quality_status = IF MissingCells # {} THEN "NEEDS_ATTENTION"
                                         ELSE "EXCELLENT"

C12_Witness ==
    /\ results # None
    /\ results[1].missing_values["query"] = 1
    /\ results[1].has_missing_values
    /\ results[1].quality_status = "NEEDS_ATTENTION"

\* The first name of the list, in list order, that heads a column.
FirstListed(names) ==
    LET present(n) == \E i \in 1..Len(csv_content.cols) : csv_content.cols[i] = names[n]
    IN IF \E n \in 1..Len(names) : present(n)
       THEN names[CHOOSE n \in 1..Len(names) :
                     present(n) /\ \A m \in 1..(n - 1) : ~present(m)]
       ELSE NoColumn

\* The first column, in table order, among those of S.
FirstColumn(S) ==
    IF S = {} THEN NoColumn
    ELSE csv_content.cols[CHOOSE i \in S : \A j \in S : i <= j]

\* The numeric columns holding exactly two distinct values.
TwoValued ==
    {i \in 1..Len(csv_content.cols) :
        /\ IsNumeric(csv_content, i)
        /\ \E a, b \in NumCells \ {NA} :
              /\ a # b
              /\ {c \in {csv_content.rows[r][i] : r \in 1..Len(csv_content.rows)} :
                     c # NA} = {a, b}}

\* The policy, with 'fallback' the columns the text fallback may pick: once
\* the file is parsed, the loader fails on the text column exactly when the
\* list and the fallback find none, on the label column exactly when a text
\* column is found and no label column is, and otherwise returns the table
\* with the two columns found renamed.
FollowsPolicy(fallback) ==
    LET q == IF FirstListed(possible_query_names) # NoColumn
             THEN FirstListed(possible_query_names) ELSE FirstColumn(fallback)
        l == IF FirstListed(possible_label_names) # NoColumn
             THEN FirstListed(possible_label_names) ELSE FirstColumn(TwoValued)
        renamed(c) == IF c = q THEN (IF l = "query" THEN "label" ELSE "query")
                      ELSE IF c = l THEN "label" ELSE c
    IN Ran("read_csv") /\ csv_content.wellformed =>
        /\ detect_error = "query" <=> q = NoColumn
        /\ detect_error = "label" <=> (q # NoColumn /\ l = NoColumn)
        /\ detect_error # "none" => df = None
        /\ q # NoColumn /\ l # NoColumn =>
              /\ df # None
              /\ df[1].cols = [i \in 1..Len(csv_content.cols) |->
                                  renamed(csv_content.cols[i])]

\* C14 as stated: the text column is the first listed candidate present,
\* else the first non-numeric column in table order; the label column the
\* first listed candidate present, else the first numeric column with
\* exactly two distinct values; a Value error exactly when both find nothing.
C14_FallbackNonNumeric ==
    FollowsPolicy({i \in 1..Len(csv_content.cols) : ~IsNumeric(csv_content, i)})

\* C14 amended: as stated, with the text fallback picking the first column
\* of text (object) type in table order; a column of True/False values alone
\* is neither text nor numeric and no fallback picks it.
C14_FallbackTextTyped ==
    FollowsPolicy({i \in 1..Len(csv_content.cols) : Dtype(csv_content, i) = "object"})

C14_Witness ==
    /\ Ran("read_csv")
    /\ csv_content = CandidatesTable
    /\ df # None
    /\ df[1].cols = <<"Payload", "query", "Label ", "label">>

\* The k-th row of S in file order.
KthRow(S, k) == CHOOSE r \in S : Cardinality({x \in S : x <= r}) = k

\* The texts of the first n rows of S, in file order.
FirstTexts(S, n) ==
    [k \in 1..(IF Cardinality(S) < n THEN Cardinality(S) ELSE n) |->
        csv_content.rows[KthRow(S, k)][ColOf(df[1], "query")]]

\* The rows of the file whose label field is the given class.
RowsOfClass(class) ==
    {r \in 1..Len(csv_content.rows) :
        csv_content.rows[r][ColOf(df[1], "label")] = Num(class)}

====
